---- MODULE Spec2Model ----
(***************************************************************************)
(* Model of src/v2/connection.ts: the ontime connection manager.           *)
(* Module-level state (ws, reconnectionTimeout, shouldReconnect), the      *)
(* handlers connect() installs on each socket, disconnectSocket(),         *)
(* socketSend() and initEvents().  Node runs every handler to completion,  *)
(* so each handler is one action.                                          *)
(***************************************************************************)
EXTENDS Integers, Sequences, FiniteSets

\* ------------------------------------------------------------------ bounds
MaxSockets == 2     \* sockets that exist at once (finished ones are reused)
MaxTimers  == 2     \* reconnect timers pending at once
MaxSent    == 1     \* frames recorded on the wire
MaxFetches == 2     \* HTTP fetches in flight at once

\* ------------------------------------------------------------------ inputs
SocketIds == 1..MaxSockets
TimerIds  == 1..(MaxTimers + 1)
NoSocket  == 0
NoTimer   == 0

NoHost     == [scheme |-> "", name |-> ""]
PlainHost  == [scheme |-> "", name |-> "ontime.local"]
SchemeHost == [scheme |-> "http://", name |-> "ontime.local"]
NoPort     == ""
SomePort   == "4001"

Configs == { [host |-> PlainHost,  port |-> SomePort],
             [host |-> SchemeHost, port |-> SomePort],
             [host |-> NoHost,     port |-> SomePort],
             [host |-> PlainHost,  port |-> NoPort] }

Messages == {"start"}

\* Optional values: <<>> is undefined, <<x>> is x.
Undefined == <<>>
Some(x) == <<x>>

\* What a handler was given: a socket text frame, a text to send, an HTTP
\* response, or nothing.
Arg(kind, type, payload) == [kind |-> kind, type |-> type, payload |-> payload]
NoArg == Arg("none", "", Undefined)
Text(m) == Arg("text", m, Undefined)

\* RemoteState payloads: timer.current when the timer object is there, and
\* whether titles and the three message objects are there.
Currents == {-500, 0, 500}
Payload(timer, rest) == [timer |-> timer, rest |-> rest]
Payloads == {Payload(Some(c), TRUE) : c \in Currents}
            \cup {Payload(Some(-500), FALSE), Payload(Undefined, TRUE)}

\* Inbound frames: text that is no JSON, the JSON document null, and JSON
\* objects with or without `type` and `payload`.
NoType == ""
Garbage == Arg("garbage", NoType, Undefined)
NullDoc == Arg("null", NoType, Undefined)
Obj(type, payload) == Arg("object", type, payload)
Frames == {Garbage, NullDoc, Obj(NoType, Undefined), Obj("pong", Undefined),
           Obj(NoType, Some(Payload(Some(-500), TRUE))),
           Obj("ontime-refetch", Undefined), Obj("ontime", Undefined)}
          \cup {Obj("ontime", Some(p)) : p \in Payloads}

\* GET /events outcomes: no response, a non-2xx status, a 2xx body null, a
\* 2xx body that is an object or a string, and 2xx arrays of events.
Open  == [id |-> "1", title |-> "Open"]
Close == [id |-> "2", title |-> "Close"]
Response(type, data) == Arg("response", type, data)
Responses == {Response("network", <<>>), Response("status", <<>>),
              Response("null", <<>>), Response("notArray", <<>>)}
             \cup {Response("ok", d) : d \in {<<>>, <<Open>>, <<Open, Close>>}}

VARIABLES
    ws,                  \* current socket (NoSocket = null)
    readyState,          \* readyState of every socket the module created
    reconnectionTimeout, \* last handle returned by setTimeout (NoTimer = null)
    timers,              \* pending reconnect callbacks, in firing order
    shouldReconnect,
    config,              \* self.config
    status,              \* last self.updateStatus
    states,              \* self.states
    published,           \* last self.setVariableValues
    events,              \* self.events
    fetches,             \* axios requests in flight, in start order
    sent,                \* frames handed to ws.send
    latest,              \* the axios request started last, and its outcome
    established,         \* sockets whose handshake completed and that have not closed
    thens,               \* queued reactions of initEvents(self).then(...)
    last                 \* the handler that ran last and the host calls it made

dataVars == <<states, published, events, fetches, latest, thens>>
vars == <<ws, readyState, reconnectionTimeout, timers, shouldReconnect, config,
          status, states, published, events, fetches, sent, latest,
          established, thens, last>>

\* ------------------------------------------------------------------ helpers
Min(S) == CHOOSE x \in S : \A y \in S : x <= y

Range(q) == {q[i] : i \in 1..Len(q)}

Remove(q, x) == SelectSeq(q, LAMBDA y : y # x)

\* `!host`: the empty string is falsy
HostMissing(host) == host.scheme = "" /\ host.name = ""

\* connect(): `!host || !port`
BadConfig(cfg) == HostMissing(cfg.host) \/ cfg.port = NoPort

Done(op, arg, calls) == [op |-> op, arg |-> arg, calls |-> calls]

\* the microtask queue is drained before the event loop runs the next
\* socket event, timer or host call
Idle == thens = <<>>

\* faulty variant: close() forgotten
CloseSocketNoop(rs, s) == rs

\* ws.close() of the ws library: CONNECTING and OPEN sockets start closing,
\* CLOSING and CLOSED sockets are left alone.
CloseSocket(rs, s) ==
    IF s # NoSocket /\ rs[s] \in {"CONNECTING", "OPEN"}
    THEN [rs EXCEPT ![s] = "CLOSING"]
    ELSE rs

\* clearTimeout(handle): a fired or unknown handle is ignored
ClearTimeout(q, h) == Remove(q, h)

\* a handle no pending callback and no variable still refers to
FreshTimer == Min({t \in TimerIds : t \notin Range(timers) /\ t # reconnectionTimeout})

\* identity for `new Websocket(...)`; sockets that are CLOSED can do nothing
\* more and their identity is reused
FreeSockets(rs) == {s \in SocketIds : rs[s] \in {"NONE", "CLOSED"}}

\* ------------------------------------------------------------------ connect
\* connect(self), with cfg = self.config; first its body after the
\* configuration check
OpenNewSocket(op, arg) ==
    LET closed == CloseSocket(readyState, ws)
        new    == Min(FreeSockets(closed))
    IN /\ readyState' = [closed EXCEPT ![new] = "CONNECTING"]
       /\ ws' = new
       /\ status' = "Connecting"
       /\ last' = Done(op, arg, {"updateStatus", "newSocket"})

\* /^((http|https):\/\/)/.test(host)
HasScheme(host) == host.scheme \in {"http://", "https://"}

\* host.replace(pattern, ''): the string without its scheme
StripScheme(host) == [scheme |-> "", name |-> host.name]

\* the host the template of line 34 reads: line 31 computes the stripped
\* string and drops it, `host` itself is never assigned
UriHost(host) ==
    LET stripped == IF HasScheme(host) THEN StripScheme(host) ELSE host
    IN host

\* `ws://${host}:${port}/ws`
Uri(host, port) == [scheme |-> "ws://", host |-> UriHost(host), port |-> port, path |-> "/ws"]

\* the address a handler opened a socket to
Target(uri) == Arg("uri", "", Some(uri))

\* faulty variant: the `return` after the BadConfig status is missing
connectNoReturn(cfg, op, arg) == OpenNewSocket(op, Target(Uri(cfg.host, cfg.port)))

connect(cfg, op, arg) ==
    IF BadConfig(cfg)
    THEN /\ status' = "BadConfig"
         /\ last' = Done(op, arg, {"updateStatus"})
         /\ UNCHANGED <<ws, readyState>>
    ELSE OpenNewSocket(op, Target(Uri(cfg.host, cfg.port)))

\* the host sets self.config and calls connect(self); a call that opens a
\* socket needs an identity for it
HostConnect(cfg) ==
    /\ Idle
    /\ BadConfig(cfg) \/ FreeSockets(CloseSocket(readyState, ws)) # {}
    /\ config' = cfg
    /\ connect(cfg, "connect", NoArg)
    /\ UNCHANGED <<reconnectionTimeout, timers, shouldReconnect, sent>>
    /\ UNCHANGED established
    /\ UNCHANGED dataVars

\* ------------------------------------------------------------------ socket events
\* ws.onopen
OnOpen(s) ==
    /\ Idle
    /\ readyState[s] = "CONNECTING"
    /\ readyState' = [readyState EXCEPT ![s] = "OPEN"]
    /\ timers' = ClearTimeout(timers, reconnectionTimeout)
    /\ status' = "Ok"
    /\ last' = Done("onopen", NoArg, {"updateStatus", "log"})
    /\ UNCHANGED <<ws, reconnectionTimeout, shouldReconnect, config, sent>>
    /\ established' = established \cup {s}
    /\ UNCHANGED dataVars

\* faulty variant: the error handler schedules a reconnect of its own
OnErrorReconnects(s) ==
    /\ Idle
    /\ readyState[s] \in {"CONNECTING", "OPEN", "CLOSING"}
    /\ Len(timers) < MaxTimers
    /\ readyState' = [readyState EXCEPT ![s] = "CLOSING"]
    /\ reconnectionTimeout' = FreshTimer
    /\ timers' = Append(timers, FreshTimer)
    /\ last' = Done("onerror", NoArg, {"log", "setTimeout"})
    /\ UNCHANGED <<ws, shouldReconnect, config, status, sent>>
    /\ UNCHANGED established
    /\ UNCHANGED dataVars

\* ws.onerror: the library reports a failure; the handler logs
OnError(s) ==
    /\ Idle
    /\ readyState[s] \in {"CONNECTING", "OPEN", "CLOSING"}
    /\ readyState' = [readyState EXCEPT ![s] = "CLOSING"]
    /\ last' = Done("onerror", NoArg, {"log"})
    /\ UNCHANGED <<ws, reconnectionTimeout, timers, shouldReconnect, config, status, sent>>
    /\ UNCHANGED established
    /\ UNCHANGED dataVars

\* the peer starts the closing handshake of an open socket
PeerClose(s) ==
    /\ Idle
    /\ readyState[s] = "OPEN"
    /\ readyState' = [readyState EXCEPT ![s] = "CLOSING"]
    /\ last' = Done("peerclose", NoArg, {})
    /\ UNCHANGED <<ws, reconnectionTimeout, timers, shouldReconnect, config, status, sent>>
    /\ UNCHANGED established
    /\ UNCHANGED dataVars

\* faulty variant: a close event schedules a timer only while none was ever set
OnCloseOnce(s) ==
    /\ Idle
    /\ readyState[s] = "CLOSING"
    /\ shouldReconnect => Len(timers) < MaxTimers
    /\ readyState' = [readyState EXCEPT ![s] = "CLOSED"]
    /\ status' = "Disconnected"
    /\ IF shouldReconnect /\ reconnectionTimeout = NoTimer
       THEN /\ reconnectionTimeout' = FreshTimer
            /\ timers' = Append(timers, FreshTimer)
            /\ last' = Done("onclose", NoArg, {"log", "updateStatus", "setTimeout"})
       ELSE /\ UNCHANGED <<reconnectionTimeout, timers>>
            /\ last' = Done("onclose", NoArg, {"log", "updateStatus"})
    /\ UNCHANGED <<ws, shouldReconnect, config, sent>>
    /\ established' = established \ {s}
    /\ UNCHANGED dataVars

\* faulty variant: a close event schedules a timer without reading shouldReconnect
OnCloseAlways(s) ==
    /\ Idle
    /\ readyState[s] = "CLOSING"
    /\ Len(timers) < MaxTimers
    /\ readyState' = [readyState EXCEPT ![s] = "CLOSED"]
    /\ status' = "Disconnected"
    /\ reconnectionTimeout' = FreshTimer
    /\ timers' = Append(timers, FreshTimer)
    /\ last' = Done("onclose", NoArg, {"log", "updateStatus", "setTimeout"})
    /\ UNCHANGED <<ws, shouldReconnect, config, sent>>
    /\ established' = established \ {s}
    /\ UNCHANGED dataVars

\* ws.onclose
OnClose(s) ==
    /\ Idle
    /\ readyState[s] = "CLOSING"
    /\ shouldReconnect => Len(timers) < MaxTimers
    /\ readyState' = [readyState EXCEPT ![s] = "CLOSED"]
    /\ status' = "Disconnected"
    /\ IF shouldReconnect
       THEN /\ reconnectionTimeout' = FreshTimer
            /\ timers' = Append(timers, FreshTimer)
            /\ last' = Done("onclose", NoArg, {"log", "updateStatus", "setTimeout"})
       ELSE /\ UNCHANGED <<reconnectionTimeout, timers>>
            /\ last' = Done("onclose", NoArg, {"log", "updateStatus"})
    /\ UNCHANGED <<ws, shouldReconnect, config, sent>>
    /\ established' = established \ {s}
    /\ UNCHANGED dataVars

\* faulty variant: the callback reconnects without reading ws.readyState
TimerFireAlways ==
    /\ Idle
    /\ timers # <<>>
    /\ FreeSockets(CloseSocket(readyState, ws)) # {}
    /\ timers' = Tail(timers)
    /\ connect(config, "timer", NoArg)
    /\ UNCHANGED <<reconnectionTimeout, shouldReconnect, config, sent>>
    /\ UNCHANGED established
    /\ UNCHANGED dataVars

\* the callback onclose gave to setTimeout; equal delays fire in order
TimerFire ==
    /\ Idle
    /\ timers # <<>>
    /\ timers' = Tail(timers)
    /\ IF ws # NoSocket /\ readyState[ws] = "CLOSED"
       THEN connect(config, "timer", NoArg)
       ELSE /\ last' = Done("timer", NoArg, {})
            /\ UNCHANGED <<ws, readyState, status>>
    /\ UNCHANGED <<reconnectionTimeout, shouldReconnect, config, sent>>
    /\ UNCHANGED established
    /\ UNCHANGED dataVars

\* ------------------------------------------------------------------ exports
\* faulty variant: the flag is flipped instead of cleared
disconnectSocketToggles ==
    /\ Idle
    /\ shouldReconnect' = ~shouldReconnect
    /\ timers' = IF reconnectionTimeout # NoTimer
                 THEN ClearTimeout(timers, reconnectionTimeout)
                 ELSE timers
    /\ readyState' = CloseSocket(readyState, ws)
    /\ last' = Done("disconnectSocket", NoArg, {})
    /\ UNCHANGED <<ws, reconnectionTimeout, config, status, sent>>
    /\ UNCHANGED established
    /\ UNCHANGED dataVars

disconnectSocket ==
    /\ Idle
    /\ shouldReconnect' = FALSE
    /\ timers' = IF reconnectionTimeout # NoTimer
                 THEN ClearTimeout(timers, reconnectionTimeout)
                 ELSE timers
    /\ readyState' = CloseSocket(readyState, ws)
    /\ last' = Done("disconnectSocket", NoArg, {})
    /\ UNCHANGED <<ws, reconnectionTimeout, config, status, sent>>
    /\ UNCHANGED established
    /\ UNCHANGED dataVars

\* faulty variant: sends on any socket, whatever its readyState
socketSendAny(m) ==
    /\ Idle
    /\ Len(sent) < MaxSent
    /\ IF ws # NoSocket
       THEN /\ sent' = Append(sent, m)
            /\ last' = Done("socketSend", Text(m), {"send"})
       ELSE /\ sent' = sent
            /\ last' = Done("socketSend", Text(m), {})
    /\ UNCHANGED <<ws, readyState, reconnectionTimeout, timers, shouldReconnect,
                   config, status>>
    /\ UNCHANGED established
    /\ UNCHANGED dataVars

socketSend(m) ==
    /\ Idle
    /\ Len(sent) < MaxSent
    /\ IF ws # NoSocket /\ readyState[ws] = "OPEN"
       THEN /\ sent' = Append(sent, m)
            /\ last' = Done("socketSend", Text(m), {"send"})
       ELSE /\ sent' = sent
            /\ last' = Done("socketSend", Text(m), {})
    /\ UNCHANGED <<ws, readyState, reconnectionTimeout, timers, shouldReconnect,
                   config, status>>
    /\ UNCHANGED established
    /\ UNCHANGED dataVars

\* ------------------------------------------------------------------ requests
\* axios.get of initEvents: no request yet; a request started, together
\* with whether older requests were still in flight; the same request settled
NoRequest == [state |-> "none", origin |-> "none", response |-> NoArg, overlaps |-> FALSE]
Started(origin) ==
    [state |-> "pending", origin |-> origin, response |-> NoArg, overlaps |-> fetches # <<>>]
Settled(response) ==
    [state |-> "settled", origin |-> latest.origin, response |-> response,
     overlaps |-> latest.overlaps]

\* ------------------------------------------------------------------ ws.onmessage
\* self.states before any snapshot, and after `self.states = undefined`
NoStates == [payload |-> Undefined, isNegative |-> Undefined]

\* JSON.parse(event.data) followed by `const { type, payload } = data`:
\* text that is no JSON and the document null both throw
Destructures(frame) == frame.kind = "object"

\* `self.states.timer.current` can be read
HasTimer(payload) == payload # Undefined /\ payload[1].timer # Undefined

\* every field the setVariableValues argument reads is there
Complete(payload) == HasTimer(payload) /\ payload[1].rest

\* faulty variant: isNegative computed with <= 0
OntimeStatesLe(payload) ==
    [payload    |-> payload,
     isNegative |-> IF HasTimer(payload)
                    THEN Some(payload[1].timer[1] <= 0)
                    ELSE Undefined]

\* lines 71-80: self.states when the `ontime` branch ends, normally or in
\* the catch
OntimeStates(payload) ==
    [payload    |-> payload,
     isNegative |-> IF HasTimer(payload)
                    THEN Some(payload[1].timer[1] < 0)
                    ELSE Undefined]

\* the `ontime` branch
Ontime(frame) ==
    /\ states' = OntimeStates(frame.payload)
    /\ IF Complete(frame.payload)
       THEN /\ published' = frame.payload
            /\ last' = Done("onmessage", frame, {"setVariableValues", "checkFeedbacks"})
       ELSE /\ published' = published
            /\ last' = Done("onmessage", frame, {})
    /\ UNCHANGED <<events, fetches, latest, thens>>

\* the `ontime-refetch` branch, up to the await inside initEvents
Refetch(frame) ==
    /\ Len(fetches) < MaxFetches
    /\ events' = <<>>
    /\ fetches' = Append(fetches, "refetch")
    /\ latest' = Started("refetch")
    /\ last' = Done("onmessage", frame, {"log", "get"})
    /\ UNCHANGED <<states, published, thens>>

\* a frame the handler returns from, or whose exception it swallows
Dropped(frame) ==
    /\ last' = Done("onmessage", frame, {})
    /\ UNCHANGED dataVars

\* faulty variant: every frame that is no refetch is taken for a snapshot
DispatchNoTypeCheck(frame) ==
    IF ~Destructures(frame) THEN Dropped(frame)
    ELSE IF frame.type = "ontime-refetch" THEN Refetch(frame)
    ELSE Ontime(frame)

\* faulty variant: no try/catch around the handler body
DispatchNoCatch(frame) ==
    IF ~Destructures(frame)
    THEN last' = Done("onmessage", frame, {"throw"}) /\ UNCHANGED dataVars
    ELSE IF frame.type = NoType THEN Dropped(frame)
    ELSE IF frame.type = "ontime" THEN Ontime(frame)
    ELSE IF frame.type = "ontime-refetch" THEN Refetch(frame)
    ELSE Dropped(frame)

Dispatch(frame) ==
    IF ~Destructures(frame) THEN Dropped(frame)
    ELSE IF frame.type = NoType THEN Dropped(frame)
    ELSE IF frame.type = "ontime" THEN Ontime(frame)
    ELSE IF frame.type = "ontime-refetch" THEN Refetch(frame)
    ELSE Dropped(frame)

OnMessage(s, frame) ==
    /\ Idle
    /\ readyState[s] \in {"OPEN", "CLOSING"}
    /\ s \in established
    /\ Dispatch(frame)
    /\ UNCHANGED <<ws, readyState, established, reconnectionTimeout, timers, shouldReconnect,
                   config, status, sent>>

\* ------------------------------------------------------------------ initEvents
\* res.data.map(evt => ({ id: evt.id, label: evt.title }))
MapEvents(data) == [i \in 1..Len(data) |-> [id |-> data[i].id, label |-> data[i].title]]

\* axios.get resolved and res.data is an array
Fetched(response) == response.type = "ok"

\* what the directory is when initEvents settles
EventsAfter(response) == IF Fetched(response) THEN MapEvents(response.payload) ELSE events

\* how the promise initEvents returns settles: its catch swallows every
\* failure, so it is never rejected
InitEventsPromise(response) == "fulfilled"

\* the host calls initEvents(self): up to the await
initEvents ==
    /\ Idle
    /\ Len(fetches) < MaxFetches
    /\ fetches' = Append(fetches, "init")
    /\ latest' = Started("init")
    /\ last' = Done("initEvents", NoArg, {"log", "get"})
    /\ UNCHANGED <<states, published, events, thens>>
    /\ UNCHANGED <<ws, readyState, established, reconnectionTimeout, timers, shouldReconnect,
                   config, status, sent>>

\* line 167 is reached: axios.get resolved and `res.data.length` can be
\* read, which it cannot of null
LengthRead(response) == response.type \in {"ok", "notArray"}

\* the i-th request in flight settles: the rest of initEvents after the
\* await. Requests that settle in the same tick resume one after another,
\* ahead of the reactions they queue; once a reaction ran, the queue
\* drains before another request resumes. The promise of a refetch
\* carries the reaction attached at lines 125-132.
FetchDone(i, response) ==
    /\ i \in 1..Len(fetches)
    /\ Idle \/ last.op = "fetchDone"
    /\ fetches' = SubSeq(fetches, 1, i - 1) \o SubSeq(fetches, i + 1, Len(fetches))
    /\ events' = EventsAfter(response)
    /\ latest' = IF i = Len(fetches) /\ latest.state = "pending"
                 THEN Settled(response)
                 ELSE latest
    /\ thens' = IF fetches[i] = "refetch" THEN Append(thens, response) ELSE thens
    /\ last' = Done("fetchDone", response,
                    {InitEventsPromise(response)}
                    \cup (IF LengthRead(response) THEN {"log"} ELSE {})
                    \cup (IF Fetched(response) THEN {} ELSE {"logError"}))
    /\ UNCHANGED <<states, published>>
    /\ UNCHANGED <<ws, readyState, established, reconnectionTimeout, timers,
                   shouldReconnect, config, status, sent>>

\* the reaction queued first runs: init_actions when initEvents fulfilled,
\* the debug log when it rejected
ThenCallback ==
    /\ thens # <<>>
    /\ thens' = Tail(thens)
    /\ last' = Done("then", Head(thens),
                    IF InitEventsPromise(Head(thens)) = "fulfilled"
                    THEN {"init_actions"}
                    ELSE {"logDebug"})
    /\ UNCHANGED <<states, published, events, fetches, latest>>
    /\ UNCHANGED <<ws, readyState, established, reconnectionTimeout, timers,
                   shouldReconnect, config, status, sent>>

\* ------------------------------------------------------------------ specification
Init ==
    /\ ws = NoSocket
    /\ readyState = [s \in SocketIds |-> "NONE"]
    /\ reconnectionTimeout = NoTimer
    /\ timers = <<>>
    /\ shouldReconnect = TRUE
    /\ config \in Configs
    /\ status = "none"
    /\ states = NoStates
    /\ published = Undefined
    /\ events = <<>>
    /\ fetches = <<>>
    /\ sent = <<>>
    /\ latest = NoRequest
    /\ established = {}
    /\ thens = <<>>
    /\ last = Done("init", NoArg, {})

\* the connection lifecycle
NextConn ==
    \/ \E cfg \in Configs : HostConnect(cfg)
    \/ \E s \in SocketIds : OnOpen(s)
    \/ \E s \in SocketIds : OnError(s)
    \/ \E s \in SocketIds : PeerClose(s)
    \/ \E s \in SocketIds : OnClose(s)
    \/ TimerFire
    \/ disconnectSocket
    \/ \E m \in Messages : socketSend(m)

\* inbound frames and the event directory, on connections that stay up
\* and a configuration the host leaves as it is
NextData ==
    \/ \E cfg \in {config} : HostConnect(cfg)
    \/ \E s \in SocketIds : OnOpen(s)
    \/ \E s \in SocketIds, frame \in Frames : OnMessage(s, frame)
    \/ initEvents
    \/ \E i \in 1..MaxFetches, response \in Responses : FetchDone(i, response)
    \/ ThenCallback

Next == NextConn \/ NextData

Spec == Init /\ [][Next]_vars

ConnSpec == Init /\ [][NextConn]_vars

DataSpec == Init /\ [][NextData]_vars

\* fairness: a pending timer fires and a closing socket gets its close
\* event. A socket may stay CONNECTING or OPEN for as long as the peer
\* likes: no handshake timeout is passed and nothing ends an idle connection.
FairConnSpec ==
    /\ ConnSpec
    /\ WF_vars(TimerFire)
    /\ WF_vars(\E s \in SocketIds : OnClose(s))

\* ------------------------------------------------------------------ claims
OpenSockets == {s \in SocketIds : readyState[s] = "OPEN"}

CurrentIs(state) == ws # NoSocket /\ readyState[ws] = state

\* C1: at most one socket is OPEN, and a socket connect() has replaced is
\* never OPEN
C1_AtMostOneOpen ==
    /\ Cardinality(OpenSockets) <= 1
    /\ \A s \in SocketIds : s # ws => readyState[s] # "OPEN"

C1_Witness ==
    /\ CurrentIs("OPEN")
    /\ \E s \in SocketIds : s # ws /\ readyState[s] = "CLOSING"
    /\ last.op = "onopen"

\* C2: a reconnect timer that fires after disconnectSocket() calls
\* connect() no more: it neither reports a status nor creates a socket
C2_NoConnectAfterDisable ==
    (last.op = "timer" /\ ~shouldReconnect) => last.calls = {}

\* C3 as claimed: while reconnection is enabled, a closed current socket
\* leads to a new connection attempt
C3_ReconnectFollows ==
    (CurrentIs("CLOSED") /\ shouldReconnect)
        ~> (CurrentIs("CONNECTING") \/ ~shouldReconnect)

ConfigOK == ~BadConfig(config)

\* C3 (amended): while reconnection is enabled and host and port are
\* configured, a closed current socket always has a reconnect timer pending
\* and leads to a new connection attempt; a timer that fires on a closed
\* current socket while host or port is missing only reports BadConfig,
\* creating no socket and scheduling no timer
C3_ReconnectFollowsWhileConfigured ==
    /\ [](CurrentIs("CLOSED") /\ shouldReconnect /\ ConfigOK => timers # <<>>)
    /\ (CurrentIs("CLOSED") /\ shouldReconnect /\ ConfigOK)
         ~> (CurrentIs("CONNECTING") \/ ~shouldReconnect \/ ~ConfigOK)
    /\ [][(last'.op = "timer" /\ CurrentIs("CLOSED") /\ ~ConfigOK) =>
            /\ status' = "BadConfig"
            /\ "newSocket" \notin last'.calls
            /\ "setTimeout" \notin last'.calls
            /\ timers' = Tail(timers)
            /\ UNCHANGED <<ws, readyState, reconnectionTimeout>>]_vars

C3_Witness ==
    /\ CurrentIs("CONNECTING")
    /\ last.op = "timer"
    /\ "newSocket" \in last.calls
    /\ shouldReconnect

\* C4: once shouldReconnect is false it stays false, and from then on no
\* step schedules a reconnect timer
C4_DisableIsPermanent ==
    [][~shouldReconnect =>
          /\ ~shouldReconnect'
          /\ Range(timers') \subseteq Range(timers)
          /\ reconnectionTimeout' = reconnectionTimeout
          /\ "setTimeout" \notin last'.calls]_vars

C4_Witness ==
    /\ ~shouldReconnect
    /\ last.op = "onclose"
    /\ timers = <<>>

\* C5: socketSend hands the message to the socket once when the current
\* socket is OPEN and does nothing otherwise; nothing else ever sends
C5_SendOnlyWhenOpen ==
    [][/\ last'.op = "socketSend" =>
            /\ "throw" \notin last'.calls
            /\ IF CurrentIs("OPEN")
               THEN sent' = Append(sent, last'.arg.type)
               ELSE sent' = sent
            /\ UNCHANGED <<ws, readyState, reconnectionTimeout, timers,
                           shouldReconnect, config, status, states, published,
                           events, fetches>>
       /\ sent' # sent => last'.op = "socketSend"]_vars

C5_Witness ==
    /\ CurrentIs("CONNECTING")
    /\ last.op = "socketSend"
    /\ last.calls = {}
    /\ sent = <<>>

\* the handler published nothing and started nothing
Quiet(calls) ==
    calls \cap {"setVariableValues", "checkFeedbacks", "get", "init_actions", "throw"} = {}

\* C6: a frame whose type is absent or unknown makes no host call and
\* changes no state
C6_UnknownTypeIgnored ==
    [][(/\ last'.op = "onmessage"
        /\ last'.arg.kind = "object"
        /\ last'.arg.type \notin {"ontime", "ontime-refetch"}) =>
            /\ Quiet(last'.calls)
            /\ UNCHANGED <<states, published, events, fetches, ws, readyState,
                           reconnectionTimeout, timers, shouldReconnect>>]_vars

C6_Witness ==
    /\ last.op = "onmessage"
    /\ last.arg = Obj(NoType, Some(Payload(Some(-500), TRUE)))
    /\ states.payload = Some(Payload(Some(500), TRUE))

\* C7: a frame that is no JSON is swallowed: no exception leaves the
\* handler, nothing is published and no state changes
C7_InvalidJsonDropped ==
    [][(last'.op = "onmessage" /\ last'.arg.kind = "garbage") =>
            /\ Quiet(last'.calls)
            /\ UNCHANGED <<states, published, events, fetches, ws, readyState,
                           reconnectionTimeout, timers, shouldReconnect, status>>]_vars

C7_Witness ==
    /\ last.op = "onmessage"
    /\ last.arg = Garbage
    /\ states.payload = Some(Payload(Some(500), TRUE))
    /\ published # Undefined

\* C8: right after a complete ontime message isNegative is (current < 0)
\* of that message, and in every state the flag agrees with the stored
\* snapshot
C8_IsNegativeFollowsCurrent ==
    /\ (/\ last.op = "onmessage"
        /\ last.arg.kind = "object"
        /\ last.arg.type = "ontime"
        /\ Complete(last.arg.payload)) =>
            /\ states.payload = last.arg.payload
            /\ states.isNegative = Some(last.arg.payload[1].timer[1] < 0)
    /\ states.isNegative # Undefined =>
            /\ HasTimer(states.payload)
            /\ states.isNegative[1] = (states.payload[1].timer[1] < 0)

C8_Witness ==
    /\ last.op = "onmessage"
    /\ last.arg = Obj("ontime", Some(Payload(Some(0), TRUE)))
    /\ states.isNegative = Some(FALSE)

\* C9: initEvents always resolves; a successful fetch leaves the mapped
\* response, a failed one logs an error and leaves the directory empty.
\* Stated of a request that was alone in flight from start to end.
C9_FailedFetchLeavesEmpty ==
    (last.op = "fetchDone" /\ fetches = <<>> /\ ~latest.overlaps) =>
        /\ "fulfilled" \in last.calls
        /\ IF last.arg.type = "ok"
           THEN /\ Len(events) = Len(last.arg.payload)
                /\ \A i \in 1..Len(events) :
                      events[i] = [id |-> last.arg.payload[i].id,
                                   label |-> last.arg.payload[i].title]
           ELSE "logError" \in last.calls /\ events = <<>>

\* C10: after a refetch whose fetch failed, the reaction attached to
\* initEvents does not run init_actions
C10_InitActionsOnlyOnSuccess ==
    (last.op = "then" /\ last.arg.type # "ok") => "init_actions" \notin last.calls

\* the handler that ran last opened a socket
Connected == last.op \in {"connect", "timer"} /\ "newSocket" \in last.calls

\* C11: the host part of the URI a socket is opened to carries no http://
\* or https:// prefix
C11_UriHostHasNoScheme ==
    Connected => last.arg.payload[1].host.scheme \notin {"http://", "https://"}

\* C12: connect() with host or port missing reports BadConfig and does
\* nothing else, whether the host or a reconnect timer called it
C12_BadConfigOnlyReports ==
    [][(/\ last'.op \in {"connect", "timer"}
        /\ (config' = [host |-> NoHost, port |-> SomePort]
            \/ config' = [host |-> PlainHost, port |-> NoPort])
        /\ last'.op = "timer" => CurrentIs("CLOSED")) =>
            /\ status' = "BadConfig"
            /\ last'.calls = {"updateStatus"}
            /\ UNCHANGED <<ws, readyState, reconnectionTimeout, shouldReconnect>>
            /\ last'.op = "connect" => timers' = timers]_vars

C12_Witness ==
    /\ last.op = "connect"
    /\ status = "BadConfig"
    /\ CurrentIs("OPEN")
    /\ \E s \in SocketIds : s # ws /\ readyState[s] = "CLOSING"

\* C13: a second disconnectSocket() right after the first changes nothing:
\* the state the first call leaves has the flag false, the remembered timer
\* not pending and the current socket, if any, closing or closed
C13_DisconnectIdempotent ==
    /\ [](last.op = "disconnectSocket" =>
            /\ ~shouldReconnect
            /\ reconnectionTimeout \notin Range(timers)
            /\ ws # NoSocket => readyState[ws] \in {"CLOSING", "CLOSED"}
            /\ "throw" \notin last.calls)
    /\ [][(last.op = "disconnectSocket" /\ last'.op = "disconnectSocket") =>
            UNCHANGED <<ws, readyState, reconnectionTimeout, timers,
                        shouldReconnect, config, status>>]_vars

C13_Witness ==
    /\ last.op = "disconnectSocket"
    /\ CurrentIs("CLOSING")
    /\ reconnectionTimeout # NoTimer
    /\ timers # <<>>

\* C14: at most one reconnect timer is pending, and none after the open
\* handler ran
C14_SingleTimer ==
    /\ Len(timers) <= 1
    /\ last.op = "onopen" => timers = <<>>

\* sockets that are connecting or open
LiveSockets == {s \in SocketIds : readyState[s] \in {"CONNECTING", "OPEN"}}

\* C15: a timer that fires while the current socket is not CLOSED calls
\* nothing and changes nothing but the pending timers; one that creates a
\* socket found the current socket CLOSED; never are two sockets
\* connecting or open
C15_StaleTimerDoesNothing ==
    /\ [](Cardinality(LiveSockets) <= 1)
    /\ [][last'.op = "timer" =>
            /\ timers' = Tail(timers)
            /\ IF CurrentIs("CLOSED")
               THEN "updateStatus" \in last'.calls
               ELSE /\ last'.calls = {}
                    /\ UNCHANGED <<ws, readyState, reconnectionTimeout,
                                   shouldReconnect, config, status, sent,
                                   states, published, events, fetches>>]_vars

C15_Witness ==
    /\ last.op = "timer"
    /\ last.calls = {}
    /\ CurrentIs("CONNECTING")
    /\ \E s \in SocketIds : s # ws /\ readyState[s] = "CLOSED"

\* C17: the error handler only logs, and only a close event schedules a
\* reconnect timer
C17_ErrorOnlyLogs ==
    [][/\ last'.op = "onerror" =>
            /\ last'.calls = {"log"}
            /\ UNCHANGED <<ws, reconnectionTimeout, timers, shouldReconnect,
                           config, status, states, published, events, fetches>>
       /\ (Range(timers') \ Range(timers) # {} \/ "setTimeout" \in last'.calls) =>
            last'.op = "onclose"]_vars

C17_Witness ==
    /\ last.op = "onerror"
    /\ CurrentIs("CLOSING")
    /\ shouldReconnect
    /\ timers = <<>>
    /\ status = "Connecting"

\* C18: while the current socket is OPEN (and host and port are configured)
\* the last reported status is Ok
C18_StatusFollowsSocket ==
    (CurrentIs("OPEN") /\ ConfigOK) => status = "Ok"

\* C16: while a request started by a refetch message is in flight the event
\* directory is empty
C16_EmptyWhileRefetching ==
    (\E i \in 1..Len(fetches) : fetches[i] = "refetch") => events = <<>>

\* C19: self.states holds the payload the published variables were computed
\* from
C19_StatesMatchPublished ==
    states.payload = published

\* C20: once overlapping requests, the last of them started by a refetch
\* message, have all settled and their reactions have run, the directory
\* is the result of the request started last: its mapped list, or empty if
\* it failed
C20_LatestRequestWins ==
    (/\ fetches = <<>>
     /\ latest.state = "settled"
     /\ latest.overlaps
     /\ latest.origin = "refetch"
     /\ thens = <<>>) =>
        IF latest.response.type = "ok"
        THEN /\ Len(events) = Len(latest.response.payload)
             /\ \A i \in 1..Len(events) :
                   events[i] = [id |-> latest.response.payload[i].id,
                                label |-> latest.response.payload[i].title]
        ELSE events = <<>>
====
